---- MODULE Spec2Model ----
(***************************************************************************)
(* Model of the benchmark runner of DBI-DB-Comparison:                     *)
(*   src/src/test-runner.ts       runAllTests and the main execution       *)
(*   src/src/performance-test.ts  class PerformanceTest                    *)
(*   src/prisma/schema.prisma     the relational schema                    *)
(*                                                                         *)
(* One action is one awaited backend call (or one iteration of a           *)
(* synchronous generator loop) of the single async control flow; the       *)
(* synchronous code that follows an await belongs to the action of that    *)
(* await.  Identifiers are tagged with their type ("int" for a serial      *)
(* column of the relational schema, "oid" for an ObjectId) so that an      *)
(* integer never equals an ObjectId, as in the document store's $lookup.   *)
(*                                                                         *)
(* Data volumes are scaled down: the program runs scales 100 and 1000      *)
(* with scale/10 users and scale*5 likes; the model keeps the formulas     *)
(* floor(scale / UserDivisor) and floor(scale * LikeFactor) and runs them  *)
(* on the scales of `scales`.  Attributes of the records that no           *)
(* statement of the program reads back in a condition (role, body, the     *)
(* created_at of users and likes) are left out.                            *)
(***************************************************************************)
EXTENDS Integers, Sequences, FiniteSets, TLC

\* ----------------------------------------------------------------- bounds
\* usernames faker can return (collisions happen when it repeats one)
MaxNames == 2

\* awaited calls of the control flow that may return while a bulk operation
\* started by an abandoned Promise.all is still in flight
MaxOvertake == 11

\* ------------------------------------------------- scaled program constants
\* test-runner.ts:14  const scales = [100, 1000]
scales == <<1, 2>>
\* performance-test.ts:109  Math.floor(scale / 10)
UserDivisor == 1
\* performance-test.ts:171  Math.floor(scale * 5)
LikeFactor == 1

\* sortedRead as a function of what is stored: posts stored, and the values
\* their created_at and title can take
MaxRows == 2
MaxStamp == 2
MaxTitle == 2

Names == 1..MaxNames
\* performance-test.ts:127  faker.helpers.arrayElement(["active","draft","archived"])
Statuses == {"active", "draft", "archived"}

\* identifiers: a serial integer of the relational schema, an ObjectId of the
\* document store, or absent
IntId(n) == [t |-> "int", n |-> n]
ObjectId(n) == [t |-> "oid", n |-> n]
NoId == [t |-> "none", n |-> 0]

\* a cleanup that removes the parents before the rows that reference them
Tables_UsersFirst == <<"users", "posts", "follows", "likes">>

Tables == <<"likes", "follows", "posts", "users">>

Variants == {"postgresBasic", "mongoBasic", "postgresWithRelations",
             "mongoWithRelations", "mongoWithIndexes"}

\* types.ts:43-51  OperationResults, in declaration order
Operations == <<"writes", "simpleRead", "filteredRead", "projectedRead",
                "sortedRead", "update", "delete">>

P(ph, op, sub) == [ph |-> ph, op |-> op, sub |-> sub]

RECURSIVE Flatten(_)
Flatten(ss) == IF ss = <<>> THEN <<>> ELSE Head(ss) \o Flatten(Tail(ss))

\* the eight deleteMany calls of cleanup, performance-test.ts:292-302
CleanupSteps(which) == [i \in 1..8 |-> P("cleanup", which, i)]

\* a variant whose result literal lists simpleRead before writes
VariantSteps_ReadFirst(v, counts) ==
    Flatten([k \in 1..7 |->
        LET m == <<2, 1, 3, 4, 5, 6, 7>>[k]
        IN [j \in 1..counts[m] |-> P(v, Operations[m], j)]])

\* the awaited calls of one variant: op name and number of awaits in it
VariantSteps(v, counts) ==
    Flatten([k \in 1..7 |-> [j \in 1..counts[k] |-> P(v, Operations[k], j)]])

\* a runTests whose basic phase runs the document adapter first
RunTestsOrder_MongoFirst ==
    CleanupSteps("start")
    \o <<P("generateBasicTestData", "names", 1),
         P("generateBasicTestData", "createUsers", 1),
         P("generateBasicTestData", "findUsers", 1)>>
    \o VariantSteps("mongoBasic", <<3, 1, 1, 1, 1, 1, 1>>)
    \o VariantSteps("postgresBasic", <<1, 1, 1, 1, 1, 1, 1>>)
    \o CleanupSteps("afterBasic")
    \o <<P("generateRelationalTestData", "names", 1),
         P("generateRelationalTestData", "createUsers", 1),
         P("generateRelationalTestData", "findUsers", 1),
         P("generateRelationalTestData", "createPosts", 1),
         P("generateRelationalTestData", "findPosts", 1)>>
    \o VariantSteps("postgresWithRelations", <<2, 1, 1, 1, 1, 2, 1>>)
    \o VariantSteps("mongoWithRelations", <<3, 1, 1, 1, 1, 2, 2>>)
    \o CleanupSteps("afterRelational")
    \o <<P("generateMongoTestData", "names", 1),
         P("generateMongoTestData", "insertUsers", 1),
         P("generateMongoTestData", "insertPosts", 1),
         P("generateMongoTestData", "likes", 1)>>
    \o VariantSteps("mongoWithIndexes", <<2, 1, 1, 1, 1, 1, 1>>)

\* performance-test.ts:240-286  the awaited calls of runTests, in order
RunTestsOrder ==
    CleanupSteps("start")
    \o <<P("generateBasicTestData", "names", 1),
         P("generateBasicTestData", "createUsers", 1),
         P("generateBasicTestData", "findUsers", 1)>>
    \o VariantSteps("postgresBasic", <<1, 1, 1, 1, 1, 1, 1>>)
    \o VariantSteps("mongoBasic", <<3, 1, 1, 1, 1, 1, 1>>)
    \o CleanupSteps("afterBasic")
    \o <<P("generateRelationalTestData", "names", 1),
         P("generateRelationalTestData", "createUsers", 1),
         P("generateRelationalTestData", "findUsers", 1),
         P("generateRelationalTestData", "createPosts", 1),
         P("generateRelationalTestData", "findPosts", 1)>>
    \o VariantSteps("postgresWithRelations", <<2, 1, 1, 1, 1, 2, 1>>)
    \o VariantSteps("mongoWithRelations", <<3, 1, 1, 1, 1, 2, 2>>)
    \o CleanupSteps("afterRelational")
    \o <<P("generateMongoTestData", "names", 1),
         P("generateMongoTestData", "insertUsers", 1),
         P("generateMongoTestData", "insertPosts", 1),
         P("generateMongoTestData", "likes", 1)>>
    \o VariantSteps("mongoWithIndexes", <<2, 1, 1, 1, 1, 1, 1>>)

\* performance-test.ts:810-1075  the five analytical queries, per backend
AggregationQueries == <<"postsPerUser", "avgLikesPerPost", "mostActiveUsers",
                        "mostLikedPosts", "userEngagement">>

VARIABLES
    pc,          \* the awaited call (or loop) the control flow is at
    si,          \* index into scales of the scale being run
    pg,          \* relational backend: users, posts, likes, follows
    pgSeq,       \* relational backend: next serial id of users and posts
    mg,          \* document backend: users, posts, likes, follows
    oid,         \* next ObjectId
    conn,        \* state of the two client connections
    testData,    \* the dataset of the current phase
    usernameSet, \* the generator's Set of usernames, in insertion order
    found,       \* ids returned by the find of a two-call update or delete
    pending,     \* bulk operations started and not yet settled
    trace,       \* begin/end of every measure call, in order
    caught,      \* the error the catch block of writes has just swallowed
    error,       \* the error that propagated out of runAllTests, or "none"
    fileWrites,  \* number of writeFileSync calls on test-results.json
    outcome,     \* how the process ended: "running", "exit0", "hang"
    afterUpdate  \* history: how many posts of each status the relational
                 \* backend held when the update of the phase was recorded

vars == <<pc, si, pg, pgSeq, mg, oid, conn, testData, usernameSet, found,
          pending, trace, caught, error, fileWrites, outcome, afterUpdate>>

EmptyDb == [users |-> {}, posts |-> {}, likes |-> {}, follows |-> {}]
NoData == [users |-> <<>>, posts |-> <<>>, likes |-> <<>>]

Scale == scales[si]

Range(f) == {f[i] : i \in DOMAIN f}


\* ------------------------------------------------------------ control flow
\* test-runner.ts:65-66 and 10-12: what runs before the first runTests
HeadOrder == <<P("main", "setupDocker", 1),
               P("runAllTests", "connect", 1),
               P("runAllTests", "setupMongoIndexes", 1)>>

\* test-runner.ts:26-67: what runs after the last runTests
TailOrder ==
    [k \in 1..5 |-> P("runAggregationTests", "postgres", k)]
    \o [k \in 1..5 |-> P("runAggregationTests", "mongo", k)]
    \o <<P("runAllTests", "writeFileSync", 1),
         P("runAllTests", "disconnect", 1),
         P("runAllTests", "disconnect", 2),
         P("main", "cleanUpDocker", 1),
         P("main", "exit", 1)>>

ExitedPc == P("main", "exited", 1)

IndexIn(order, p) == CHOOSE i \in DOMAIN order : order[i] = p

\* the call that follows p when p returns normally
NextPc(p) ==
    IF p \in Range(HeadOrder)
    THEN IF IndexIn(HeadOrder, p) < Len(HeadOrder)
         THEN HeadOrder[IndexIn(HeadOrder, p) + 1]
         ELSE RunTestsOrder[1]
    ELSE IF p \in Range(RunTestsOrder)
    THEN IF IndexIn(RunTestsOrder, p) < Len(RunTestsOrder)
         THEN RunTestsOrder[IndexIn(RunTestsOrder, p) + 1]
         ELSE IF si < Len(scales) THEN RunTestsOrder[1] ELSE TailOrder[1]
    ELSE IF IndexIn(TailOrder, p) < Len(TailOrder)
         THEN TailOrder[IndexIn(TailOrder, p) + 1]
         ELSE ExitedPc

\* test-runner.ts:18  for (const scale of scales)
NextSi(p) ==
    IF p = RunTestsOrder[Len(RunTestsOrder)] /\ si < Len(scales)
    THEN si + 1 ELSE si

\* performance-test.ts:63-71  measure: which calls run inside one measure call
Measured(p) == p.ph \in Variants \cup {"runAggregationTests"}
MeasureKey(p) ==
    <<p.ph, p.op, IF p.ph = "runAggregationTests" THEN p.sub ELSE 0>>
Ev(e, p) ==
    IF p.ph = "runAggregationTests"
    THEN [e |-> e, s |-> 0, v |-> p.op, o |-> AggregationQueries[p.sub]]
    ELSE [e |-> e, s |-> Scale, v |-> p.ph, o |-> p.op]
Events(p, q) ==
    (IF Measured(p) /\ MeasureKey(p) # MeasureKey(q)
     THEN <<Ev("end", p)>> ELSE <<>>)
    \o (IF Measured(q) /\ MeasureKey(p) # MeasureKey(q)
        THEN <<Ev("begin", q)>> ELSE <<>>)

\* the number of the call p of the run of scale index s, counted from the
\* start of the process
Clock(p, s) ==
    IF p \in Range(HeadOrder) THEN IndexIn(HeadOrder, p)
    ELSE IF p \in Range(RunTestsOrder)
    THEN Len(HeadOrder) + (s - 1) * Len(RunTestsOrder)
         + IndexIn(RunTestsOrder, p)
    ELSE IF p \in Range(TailOrder)
    THEN Len(HeadOrder) + Len(scales) * Len(RunTestsOrder)
         + IndexIn(TailOrder, p)
    ELSE Len(HeadOrder) + Len(scales) * Len(RunTestsOrder) + Len(TailOrder) + 1

\* the awaited calls that have returned since the Promise.all over the bulk
\* operation o was left, once the call at p returns
Overtaken(p, o) == Clock(p, si) - o.at - 1

\* the awaited call at p is over and control moves to the next call; e is
\* what a catch block around the call swallowed, if anything
GoOn(p, e) ==
    /\ \A o \in pending : Overtaken(p, o) <= MaxOvertake
    /\ pc' = NextPc(p)
    /\ si' = NextSi(p)
    /\ trace' = trace \o Events(p, NextPc(p))
    /\ error' = error
    /\ caught' = e

\* the awaited call at p returned
Go(p) == GoOn(p, {})

\* a runner whose catch block goes on to write the results it has
Throw_IntoWriteFile(kind) ==
    /\ pc' = P("runAllTests", "writeFileSync", 1)
    /\ error' = kind
    /\ caught' = {}
    /\ UNCHANGED <<si, trace>>

\* the awaited call at pc threw and no catch inside runTests swallows it:
\* cleanup rethrows (performance-test.ts:303-306), runAllTests logs and
\* rethrows (test-runner.ts:58-61), the main execution logs it with
\* .catch(console.error) and goes on to cleanUpDocker (test-runner.ts:66-67)
Throw(kind) ==
    /\ pc' = P("main", "cleanUpDocker", 1)
    /\ error' = kind
    /\ caught' = {}
    /\ UNCHANGED <<si, trace>>

Init ==
    /\ pc = HeadOrder[1]
    /\ si = 1
    /\ pg = EmptyDb
    /\ pgSeq = [users |-> 1, posts |-> 1]
    /\ mg = EmptyDb
    /\ oid = 1
    /\ conn = [prisma |-> "idle", mongo |-> "idle"]
    /\ testData = NoData
    /\ usernameSet = <<>>
    /\ found = {}
    /\ pending = {}
    /\ trace = <<>>
    /\ caught = {}
    /\ error = "none"
    /\ fileWrites = 0
    /\ outcome = "running"
    /\ afterUpdate = <<>>


\* ------------------------------------------------------ relational backend
\* rows: users [id, username], posts [id, status, user_id],
\*       likes [post_id, user_id]                  (prisma/schema.prisma)

RECURSIVE SortedRows(_)
\* the rows of S as a sequence, by ascending id (findMany without orderBy
\* returns a heap that was only appended to in insertion order)
SortedRows(S) ==
    IF S = {} THEN <<>>
    ELSE LET m == CHOOSE x \in S : \A y \in S : x.id.n <= y.id.n
         IN <<m>> \o SortedRows(S \ {m})

Distinct(seq) == \A i, j \in DOMAIN seq : i # j => seq[i] # seq[j]

\* prisma.user.createMany({data}): username is @unique (schema.prisma:13)
PgCreateUsers(db, seq, names) ==
    IF \/ ~Distinct(names)
       \/ \E u \in db.users : u.username \in Range(names)
    THEN [err |-> "dup", db |-> db, seq |-> seq]
    ELSE [err |-> "none",
          db |-> [db EXCEPT !.users = @ \cup
                    {[id |-> IntId(seq.users + i - 1), username |-> names[i]]
                       : i \in DOMAIN names}],
          seq |-> [seq EXCEPT !.users = @ + Len(names)]]

\* prisma.post.createMany({data}): user_id references User (schema.prisma:28)
PgCreatePosts(db, seq, posts) ==
    IF \E i \in DOMAIN posts : posts[i].user_id \notin {u.id : u \in db.users}
    THEN [err |-> "fk", db |-> db, seq |-> seq]
    ELSE [err |-> "none",
          db |-> [db EXCEPT !.posts = @ \cup
                    {[id |-> IntId(seq.posts + i - 1),
                      status |-> posts[i].status,
                      user_id |-> posts[i].user_id] : i \in DOMAIN posts}],
          seq |-> [seq EXCEPT !.posts = @ + Len(posts)]]

\* prisma.like.createMany({data, skipDuplicates: true}): @@id([post_id, user_id])
\* and both references (schema.prisma:33-40); a conflicting row is skipped
PgCreateLikes(db, likes) ==
    IF \E i \in DOMAIN likes :
          \/ likes[i].post_id \notin {q.id : q \in db.posts}
          \/ likes[i].user_id \notin {u.id : u \in db.users}
    THEN [err |-> "fk", db |-> db]
    ELSE [err |-> "none",
          db |-> [db EXCEPT !.likes = @ \cup
                    {[post_id |-> likes[i].post_id, user_id |-> likes[i].user_id]
                       : i \in DOMAIN likes}]]

\* a row of `table` that another stored row still references (the relations
\* of schema.prisma carry no onDelete, so a delete of it is refused)
PgReferenced(db, table, r) ==
    CASE table = "users" ->
            \/ \E q \in db.posts : q.user_id = r.id
            \/ \E l \in db.likes : l.user_id = r.id
      [] table = "posts" -> \E l \in db.likes : l.post_id = r.id
      [] OTHER -> FALSE

\* prisma.<table>.deleteMany({where}): removes the rows that where selects
PgDeleteMany(db, table, where) ==
    LET gone == db[table] \cap where
    IN IF \E r \in gone : PgReferenced(db, table, r)
       THEN [err |-> "fk", db |-> db]
       ELSE [err |-> "none", db |-> [db EXCEPT ![table] = @ \ gone]]

\* prisma.post.updateMany({where, data: {status}})
PgUpdatePosts(db, where, status) ==
    [db EXCEPT !.posts =
        {IF q \in where THEN [q EXCEPT !.status = status] ELSE q : q \in @}]

\* prisma.user.findMany() / prisma.post.findMany() as dataset records
PgFindUsers(db) ==
    LET rows == SortedRows(db.users)
    IN [i \in DOMAIN rows |->
          [_id |-> NoId, id |-> rows[i].id, username |-> rows[i].username]]
PgFindPosts(db) ==
    LET rows == SortedRows(db.posts)
    IN [i \in DOMAIN rows |->
          [_id |-> NoId, id |-> rows[i].id, status |-> rows[i].status,
           user_id |-> rows[i].user_id]]

\* -------------------------------------------------------- document backend
\* documents: users [_id, id, username], posts [_id, id, status, user_id],
\*            likes [_id, post_id, user_id]; id is NoId unless the document
\* was copied from a relational row

\* the unique indexes: _id, users.username, likes.(post_id, user_id)
\* (performance-test.ts:46 and 56-58)
MgConflict(name, coll, d) ==
    \E e \in coll :
        \/ e._id = d._id
        \/ name = "users" /\ e.username = d.username
        \/ name = "likes" /\ e.post_id = d.post_id /\ e.user_id = d.user_id

RECURSIVE MgInsertLoop(_, _, _, _, _, _)
MgInsertLoop(name, coll, docs, ordered, o, err) ==
    IF docs = <<>> THEN [err |-> err, coll |-> coll, oid |-> o]
    ELSE LET fresh == Head(docs)._id = NoId
             d == IF fresh THEN [Head(docs) EXCEPT !._id = ObjectId(o)]
                  ELSE Head(docs)
             o2 == IF fresh THEN o + 1 ELSE o
         IN IF MgConflict(name, coll, d)
            THEN IF ordered THEN [err |-> "dup", coll |-> coll, oid |-> o2]
                 ELSE MgInsertLoop(name, coll, Tail(docs), ordered, o2, "dup")
            ELSE MgInsertLoop(name, coll \cup {d}, Tail(docs), ordered, o2, err)

\* db.collection(name).insertMany(docs, {ordered}) and an unordered bulk
\* operation's execute(): a document without _id gets a new ObjectId; an
\* ordered insert stops at the first duplicate key, an unordered one inserts
\* every document that does not conflict; both throw if any conflicted
MgInsertMany(db, name, docs, ordered, o) ==
    LET r == MgInsertLoop(name, db[name], docs, ordered, o, "none")
    IN [err |-> r.err, db |-> [db EXCEPT ![name] = r.coll], oid |-> r.oid]


\* --------------------------------------------------------------- generators
genVars == <<testData, usernameSet, found>>
dbVars == <<pg, pgSeq, mg, oid>>
runVars == <<pending, fileWrites, outcome, afterUpdate>>

\* how many of the posts have each status
StatusCount(posts) ==
    [st \in Statuses \cup {"trending"} |->
        Cardinality({q \in posts : q.status = st})]

Generators == {"generateBasicTestData", "generateRelationalTestData",
               "generateMongoTestData"}

\* a username loop that runs once too often (<= for <)
UserTarget_OneMore == scales[si] \div UserDivisor + 1

\* performance-test.ts:109, 143, 188  Math.floor(scale / 10)
UserTarget == Scale \div UserDivisor
\* a like target of one more than there are (post, user) pairs
LikeTarget_BeyondPairs == Scale * (Scale \div UserDivisor) + 1

\* performance-test.ts:171, 221  Math.floor(scale * 5)
LikeTarget == Scale * LikeFactor

\* a generated post: status and owner drawn with faker.helpers.arrayElement
NewPosts(f) ==
    [i \in DOMAIN f |->
        [_id |-> NoId, id |-> NoId, status |-> f[i][1], user_id |-> f[i][2]]]

WithObjectIds(docs, o) ==
    [i \in DOMAIN docs |-> [docs[i] EXCEPT !._id = ObjectId(o + i - 1)]]

\* performance-test.ts:108-118, 142-152, 187-198: the username loop; leaving
\* it, generateMongoTestData builds its users with new ObjectIds
GenUsernames ==
    /\ pc.ph \in Generators /\ pc.op = "names"
    /\ IF Len(usernameSet) < UserTarget
       THEN /\ \E n \in Names :
                 usernameSet' = IF n \in Range(usernameSet) THEN usernameSet
                                ELSE Append(usernameSet, n)
            /\ UNCHANGED <<pc, si, trace, error, caught, testData, oid>>
       ELSE /\ Go(pc)
            /\ usernameSet' = usernameSet
            /\ IF pc.ph = "generateMongoTestData"
               THEN /\ testData' =
                        [NoData EXCEPT !.users = WithObjectIds(
                            [i \in DOMAIN usernameSet |->
                                [_id |-> NoId, id |-> NoId,
                                 username |-> usernameSet[i]]], oid)]
                    /\ oid' = oid + Len(usernameSet)
               ELSE UNCHANGED <<testData, oid>>
    /\ UNCHANGED <<pg, pgSeq, mg, conn, found>>
    /\ UNCHANGED runVars

\* performance-test.ts:121, 155  await this.prisma.user.createMany({data: users})
GenCreateUsers ==
    /\ pc.ph \in Generators /\ pc.op = "createUsers"
    /\ LET r == PgCreateUsers(pg, pgSeq, usernameSet)
       IN IF r.err # "none"
          THEN Throw(r.err) /\ UNCHANGED <<pg, pgSeq>>
          ELSE Go(pc) /\ pg' = r.db /\ pgSeq' = r.seq
    /\ UNCHANGED <<mg, oid, conn>>
    /\ UNCHANGED genVars
    /\ UNCHANGED runVars

\* performance-test.ts:122-135, 156-164  dbUsers = findMany(), then the posts
GenFindUsers ==
    /\ pc.ph \in Generators /\ pc.op = "findUsers"
    /\ LET dbUsers == PgFindUsers(pg)
           ids == {dbUsers[i].id : i \in DOMAIN dbUsers}
       IN IF ids = {}
          THEN Throw("empty") /\ UNCHANGED testData
          ELSE /\ Go(pc)
               /\ \E f \in [1..Scale -> Statuses \X ids] :
                     testData' = [users |-> dbUsers, posts |-> NewPosts(f),
                                  likes |-> <<>>]
    /\ usernameSet' = <<>>
    /\ UNCHANGED <<conn, found>>
    /\ UNCHANGED dbVars
    /\ UNCHANGED runVars

\* performance-test.ts:167  await this.prisma.post.createMany({data: posts})
GenRelCreatePosts ==
    /\ pc = P("generateRelationalTestData", "createPosts", 1)
    /\ LET r == PgCreatePosts(pg, pgSeq, testData.posts)
       IN IF r.err # "none"
          THEN Throw(r.err) /\ UNCHANGED <<pg, pgSeq>>
          ELSE Go(pc) /\ pg' = r.db /\ pgSeq' = r.seq
    /\ UNCHANGED <<mg, oid, conn>>
    /\ UNCHANGED genVars
    /\ UNCHANGED runVars

\* performance-test.ts:168-180  dbPosts = findMany(), then the likes: one
\* (post, user) pair per array slot, drawn independently
GenRelFindPosts ==
    /\ pc = P("generateRelationalTestData", "findPosts", 1)
    /\ LET dbPosts == PgFindPosts(pg)
           postIds == {dbPosts[i].id : i \in DOMAIN dbPosts}
           userIds == {testData.users[i].id : i \in DOMAIN testData.users}
       IN IF postIds = {}
          THEN Throw("empty") /\ UNCHANGED testData
          ELSE /\ Go(pc)
               /\ \E g \in [1..LikeTarget -> postIds \X userIds] :
                     testData' =
                        [users |-> testData.users, posts |-> dbPosts,
                         likes |-> [i \in 1..LikeTarget |->
                                      [_id |-> NoId, post_id |-> g[i][1],
                                       user_id |-> g[i][2]]]]
    /\ UNCHANGED <<conn, usernameSet, found>>
    /\ UNCHANGED dbVars
    /\ UNCHANGED runVars

\* performance-test.ts:201-211  insertMany(users), then the posts
GenMongoInsertUsers ==
    /\ pc = P("generateMongoTestData", "insertUsers", 1)
    /\ LET r == MgInsertMany(mg, "users", testData.users, TRUE, oid)
           ids == {testData.users[i]._id : i \in DOMAIN testData.users}
       IN IF r.err # "none"
          THEN Throw(r.err) /\ UNCHANGED <<mg, oid, testData>>
          ELSE IF ids = {}
          THEN Throw("empty") /\ mg' = r.db /\ UNCHANGED <<oid, testData>>
          ELSE /\ Go(pc)
               /\ mg' = r.db
               /\ oid' = r.oid + Scale
               /\ \E f \in [1..Scale -> Statuses \X ids] :
                     testData' = [testData EXCEPT
                                    !.posts = WithObjectIds(NewPosts(f), r.oid)]
    /\ usernameSet' = <<>>
    /\ UNCHANGED <<pg, pgSeq, conn, found>>
    /\ UNCHANGED runVars

\* performance-test.ts:214  await db.collection('posts').insertMany(posts)
GenMongoInsertPosts ==
    /\ pc = P("generateMongoTestData", "insertPosts", 1)
    /\ LET r == MgInsertMany(mg, "posts", testData.posts, TRUE, oid)
       IN IF r.err # "none"
          THEN Throw(r.err) /\ UNCHANGED <<mg, oid>>
          ELSE Go(pc) /\ mg' = r.db /\ oid' = r.oid
    /\ UNCHANGED <<pg, pgSeq, conn>>
    /\ UNCHANGED genVars
    /\ UNCHANGED runVars

\* performance-test.ts:217-237  the unique-like loop: a drawn pair whose key
\* is already in likeSet is dropped
GenMongoLikes ==
    /\ pc = P("generateMongoTestData", "likes", 1)
    /\ IF Len(testData.likes) < LikeTarget
       THEN /\ \E i \in DOMAIN testData.posts, j \in DOMAIN testData.users :
                 LET post_id == testData.posts[i]._id
                     user_id == testData.users[j]._id
                     has == \E k \in DOMAIN testData.likes :
                               /\ testData.likes[k].post_id = post_id
                               /\ testData.likes[k].user_id = user_id
                 IN IF has THEN UNCHANGED <<testData, oid>>
                    ELSE /\ testData' = [testData EXCEPT !.likes =
                               Append(@, [_id |-> ObjectId(oid),
                                          post_id |-> post_id,
                                          user_id |-> user_id])]
                         /\ oid' = oid + 1
            /\ UNCHANGED <<pc, si, trace, error, caught>>
       ELSE Go(pc) /\ UNCHANGED <<testData, oid>>
    /\ UNCHANGED <<pg, pgSeq, mg, conn, usernameSet, found>>
    /\ UNCHANGED runVars


\* ---------------------------------------------------------------- cleanup
\* performance-test.ts:288-307  likes, follows, posts, users: first on the
\* relational backend, then on the document backend
Cleanup ==
    /\ pc.ph = "cleanup"
    /\ IF pc.sub <= 4
       THEN LET r == PgDeleteMany(pg, Tables[pc.sub], pg[Tables[pc.sub]])
            IN /\ IF r.err # "none"
                  THEN Throw(r.err) /\ pg' = pg
                  ELSE Go(pc) /\ pg' = r.db
               /\ conn' = [conn EXCEPT !.prisma = "open"]
               /\ mg' = mg
       ELSE /\ Go(pc)
            /\ mg' = [mg EXCEPT ![Tables[pc.sub - 4]] = {}]
            /\ UNCHANGED <<pg, conn>>
    /\ UNCHANGED <<pgSeq, oid>>
    /\ UNCHANGED genVars
    /\ UNCHANGED runVars

\* ----------------------------------------------------- variants: writes
\* the dataset is not read again once the last variant of its phase returned
LastOfPhase(p) ==
    \/ p = P("mongoBasic", "delete", 1)
    \/ p = P("mongoWithRelations", "delete", 2)
    \/ p = P("mongoWithIndexes", "delete", 1)
Release(p) == testData' = IF LastOfPhase(p) THEN NoData ELSE testData

\* performance-test.ts:314-317
PgBasicWrites ==
    /\ pc = P("postgresBasic", "writes", 1)
    /\ LET r == PgCreatePosts(pg, pgSeq, testData.posts)
       IN IF r.err # "none"
          THEN Throw(r.err) /\ UNCHANGED <<pg, pgSeq>>
          ELSE Go(pc) /\ pg' = r.db /\ pgSeq' = r.seq
    /\ UNCHANGED <<mg, oid, conn>>
    /\ UNCHANGED genVars
    /\ UNCHANGED runVars

\* performance-test.ts:489-494  the users without their relational id
MgBasicWritesUsers ==
    /\ pc = P("mongoBasic", "writes", 1)
    /\ LET docs == [i \in DOMAIN testData.users |->
                      [_id |-> NoId, id |-> NoId,
                       username |-> testData.users[i].username]]
           r == MgInsertMany(mg, "users", docs, TRUE, oid)
       IN IF r.err # "none"
          THEN Throw(r.err) /\ UNCHANGED <<mg, oid>>
          ELSE Go(pc) /\ mg' = r.db /\ oid' = r.oid
    /\ UNCHANGED <<pg, pgSeq, conn>>
    /\ UNCHANGED genVars
    /\ UNCHANGED runVars

\* performance-test.ts:496-503  userDocs = find().toArray(); every post gets
\* the _id of a user document drawn with arrayElement
MgBasicWritesFind ==
    /\ pc = P("mongoBasic", "writes", 2)
    /\ LET ids == {u._id : u \in mg.users}
       IN IF ids = {}
          THEN Throw("empty") /\ found' = found
          ELSE /\ Go(pc)
               /\ \E g \in [DOMAIN testData.posts -> ids] :
                     found' = [i \in DOMAIN testData.posts |->
                                 [_id |-> NoId, id |-> NoId,
                                  status |-> testData.posts[i].status,
                                  user_id |-> g[i]]]
    /\ UNCHANGED <<conn, testData, usernameSet>>
    /\ UNCHANGED dbVars
    /\ UNCHANGED runVars

\* performance-test.ts:504  await db.collection("posts").insertMany(posts)
MgBasicWritesPosts ==
    /\ pc = P("mongoBasic", "writes", 3)
    /\ LET r == MgInsertMany(mg, "posts", found, TRUE, oid)
       IN IF r.err # "none"
          THEN Throw(r.err) /\ UNCHANGED <<mg, oid>>
          ELSE Go(pc) /\ mg' = r.db /\ oid' = r.oid
    /\ found' = {}
    /\ UNCHANGED <<pg, pgSeq, conn, testData, usernameSet>>
    /\ UNCHANGED runVars

\* performance-test.ts:376-386  the posts of the dataset, without their ids
PgRelWritesPosts ==
    /\ pc = P("postgresWithRelations", "writes", 1)
    /\ LET r == PgCreatePosts(pg, pgSeq, testData.posts)
       IN IF r.err # "none"
          THEN Throw(r.err) /\ UNCHANGED <<pg, pgSeq>>
          ELSE Go(pc) /\ pg' = r.db /\ pgSeq' = r.seq
    /\ UNCHANGED <<mg, oid, conn>>
    /\ UNCHANGED genVars
    /\ UNCHANGED runVars

\* performance-test.ts:388-396  createMany({data: likes, skipDuplicates: true})
PgRelWritesLikes ==
    /\ pc = P("postgresWithRelations", "writes", 2)
    /\ LET r == PgCreateLikes(pg, testData.likes)
       IN IF r.err # "none"
          THEN Throw(r.err) /\ pg' = pg
          ELSE Go(pc) /\ pg' = r.db
    /\ UNCHANGED <<pgSeq, mg, oid, conn>>
    /\ UNCHANGED genVars
    /\ UNCHANGED runVars

\* performance-test.ts:550-551  insertMany(testData.users), then
\* insertMany(testData.posts): the relational rows as they are
MgRelWritesRows ==
    /\ pc.ph = "mongoWithRelations" /\ pc.op = "writes" /\ pc.sub \in {1, 2}
    /\ LET name == IF pc.sub = 1 THEN "users" ELSE "posts"
           r == MgInsertMany(mg, name, testData[name], TRUE, oid)
       IN IF r.err # "none"
          THEN Throw(r.err) /\ UNCHANGED <<mg, oid>>
          ELSE Go(pc) /\ mg' = r.db /\ oid' = r.oid
    /\ UNCHANGED <<pg, pgSeq, conn>>
    /\ UNCHANGED genVars
    /\ UNCHANGED runVars

Swallowed(v, call, kind) == [v |-> v, call |-> call, kind |-> kind]

\* performance-test.ts:553-558  try { insertMany(likes, {ordered: false}) }
\* catch (error) { console.log(...) }: the catch block takes every error
MgRelWritesLikes ==
    /\ pc = P("mongoWithRelations", "writes", 3)
    /\ LET r == MgInsertMany(mg, "likes", testData.likes, FALSE, oid)
       IN /\ mg' = r.db
          /\ oid' = r.oid
          /\ GoOn(pc, IF r.err # "none"
                      THEN {Swallowed(pc.ph, "likes", r.err)} ELSE {})
    /\ UNCHANGED <<pg, pgSeq, conn>>
    /\ UNCHANGED genVars
    /\ UNCHANGED runVars

\* performance-test.ts:732-752  three unordered bulk operations are built and
\* their execute() is called: all three requests are started before
\* Promise.all is awaited
MgIdxWritesStart ==
    /\ pc = P("mongoWithIndexes", "writes", 1)
    /\ pending' = pending \cup
          {[kind |-> k, docs |-> testData[k], s |-> si, at |-> Clock(pc, si)]
             : k \in {"users", "posts", "likes"}}
    /\ Go(pc)
    /\ UNCHANGED <<conn, fileWrites, outcome, afterUpdate>>
    /\ UNCHANGED dbVars
    /\ UNCHANGED genVars

IdxWait == P("mongoWithIndexes", "writes", 2)

\* a started bulk operation settles.  performance-test.ts:747-755: Promise.all
\* rejects with the first rejection, whatever the other two requests are
\* doing; the catch block takes every error and measure returns
Settle(o) ==
    /\ o \in pending
    /\ conn.mongo = "open"
    /\ outcome = "running"
    /\ pending' = pending \ {o}
    /\ LET r == MgInsertMany(mg, o.kind, o.docs, FALSE, oid)
           awaited == pc = IdxWait /\ o.s = si
       IN /\ mg' = r.db
          /\ oid' = r.oid
          /\ IF awaited /\ r.err # "none"
             THEN GoOn(pc, {Swallowed(pc.ph, o.kind, r.err)})
             ELSE IF awaited /\ ~\E q \in pending \ {o} : q.s = si
             THEN Go(pc)
             ELSE UNCHANGED <<pc, si, trace, error, caught>>
    /\ UNCHANGED <<pg, pgSeq, conn, fileWrites, outcome, afterUpdate>>
    /\ UNCHANGED genVars


\* -------------------------------------------- variants: reads, update, delete
ReadOps == {"simpleRead", "filteredRead", "projectedRead", "sortedRead"}

\* the four reads of every variant: the result of the query is dropped
\* (performance-test.ts:319-349, 400-458, 507-528, 561-681, 758-790)
Read ==
    /\ pc.ph \in Variants /\ pc.op \in ReadOps
    /\ Go(pc)
    /\ UNCHANGED conn
    /\ UNCHANGED dbVars
    /\ UNCHANGED genVars
    /\ UNCHANGED runVars

IsActive(q) == q.status = "active"
IsArchived(q) == q.status = "archived"

\* $lookup from likes, localField _id, foreignField post_id, then $match on
\* "likes.0" (performance-test.ts:596-606, 684-696 and 705-717)
MgHasLikes(db, q) == \E l \in db.likes : l.post_id = q._id

\* the posts stored on a backend
StoredPosts(backend) == IF backend = "postgres" THEN pg.posts ELSE mg.posts

\* where: { likes: { some: {} } }  (performance-test.ts:415)
PgHasLikes(q) == \E l \in pg.likes : l.post_id = q.id

\* $lookup from users, localField user_id, foreignField _id, then
\* $unwind "$user": a post whose lookup found nobody is dropped
\* (performance-test.ts:588-594, 607)
MgHasUser(q) == \E u \in mg.users : q.user_id = u._id

\* the posts the filteredRead of variant v returns
\* (performance-test.ts:323-329, 409-423, 511-515, 583-609, 765-771)
FilteredRead(v) ==
    CASE v = "postgresBasic" -> {q \in pg.posts : IsActive(q)}
      [] v = "postgresWithRelations" ->
            {q \in pg.posts : IsActive(q) /\ PgHasLikes(q)}
      [] v = "mongoBasic" -> {q \in mg.posts : IsActive(q)}
      [] v = "mongoWithRelations" ->
            {q \in mg.posts :
                IsActive(q) /\ MgHasLikes(mg, q) /\ MgHasUser(q)}
      [] v = "mongoWithIndexes" -> {q \in mg.posts : IsActive(q)}

\* the posts the projectedRead of variant v returns
\* (performance-test.ts:331-341, 425-440, 517-521, 611-645, 773-782)
ProjectedRead(v) ==
    CASE v = "postgresBasic" -> pg.posts
      [] v = "postgresWithRelations" -> {q \in pg.posts : IsActive(q)}
      [] v = "mongoBasic" -> mg.posts
      [] v = "mongoWithRelations" ->
            {q \in mg.posts : IsActive(q) /\ MgHasUser(q)}
      [] v = "mongoWithIndexes" -> {q \in mg.posts : IsActive(q)}

MgUpdatePosts(db, where, status) ==
    [db EXCEPT !.posts =
        {IF q \in where THEN [q EXCEPT !.status = status] ELSE q : q \in @}]

\* an update that is skipped, with no duration recorded, when no post matches
UpdateActive_SkipsEmpty ==
    /\ pc.ph \in {"postgresBasic", "mongoBasic", "mongoWithIndexes"}
    /\ pc.op = "update"
    /\ IF \E q \in (IF pc.ph = "postgresBasic" THEN pg.posts ELSE mg.posts)
             : IsActive(q)
       THEN Go(pc)
       ELSE /\ \A o \in pending : Overtaken(pc, o) <= MaxOvertake
            /\ pc' = NextPc(pc)
            /\ UNCHANGED <<si, trace, error, caught>>
    /\ IF pc.ph = "postgresBasic"
       THEN /\ pg' = PgUpdatePosts(pg, {q \in pg.posts : IsActive(q)},
                                   "archived")
            /\ mg' = mg
       ELSE /\ mg' = MgUpdatePosts(mg, {q \in mg.posts : IsActive(q)},
                                   "archived")
            /\ pg' = pg
    /\ afterUpdate' = IF pc.ph = "postgresBasic"
                      THEN StatusCount(pg'.posts)
                      ELSE afterUpdate
    /\ UNCHANGED <<pgSeq, oid, conn>>
    /\ UNCHANGED genVars
    /\ UNCHANGED <<pending, fileWrites, outcome>>

\* updateMany status "active" -> "archived"
\* (performance-test.ts:351-360, 530-535, 792-797)
UpdateActive ==
    /\ pc.ph \in {"postgresBasic", "mongoBasic", "mongoWithIndexes"}
    /\ pc.op = "update"
    /\ Go(pc)
    /\ IF pc.ph = "postgresBasic"
       THEN /\ pg' = PgUpdatePosts(pg, {q \in pg.posts : IsActive(q)},
                                   "archived")
            /\ mg' = mg
       ELSE /\ mg' = MgUpdatePosts(mg, {q \in mg.posts : IsActive(q)},
                                   "archived")
            /\ pg' = pg
    /\ afterUpdate' = IF pc.ph = "postgresBasic"
                      THEN StatusCount(pg'.posts)
                      ELSE afterUpdate
    /\ UNCHANGED <<pgSeq, oid, conn>>
    /\ UNCHANGED genVars
    /\ UNCHANGED <<pending, fileWrites, outcome>>

\* deleteMany status "archived" (performance-test.ts:362-368, 537-541, 799-803)
DeleteArchived ==
    /\ pc.ph \in {"postgresBasic", "mongoBasic", "mongoWithIndexes"}
    /\ pc.op = "delete"
    /\ IF pc.ph = "postgresBasic"
       THEN LET r == PgDeleteMany(pg, "posts", {q \in pg.posts : IsArchived(q)})
            IN /\ IF r.err # "none"
                  THEN Throw(r.err) /\ pg' = pg /\ testData' = testData
                  ELSE Go(pc) /\ pg' = r.db /\ Release(pc)
               /\ mg' = mg
       ELSE /\ Go(pc)
            /\ mg' = [mg EXCEPT !.posts = {q \in @ : ~IsArchived(q)}]
            /\ pg' = pg
            /\ Release(pc)
    /\ afterUpdate' = IF pc.ph = "mongoBasic" THEN <<>> ELSE afterUpdate
    /\ UNCHANGED <<pgSeq, oid, conn, usernameSet, found>>
    /\ UNCHANGED <<pending, fileWrites, outcome>>

\* performance-test.ts:461-464  the ids of the posts that have a like
PgRelUpdateFind ==
    /\ pc = P("postgresWithRelations", "update", 1)
    /\ found' = {q.id : q \in {x \in pg.posts :
                                 \E l \in pg.likes : l.post_id = x.id}}
    /\ Go(pc)
    /\ UNCHANGED <<conn, testData, usernameSet>>
    /\ UNCHANGED dbVars
    /\ UNCHANGED runVars

\* performance-test.ts:466-469  updateMany id in (...) -> "trending"
PgRelUpdateSet ==
    /\ pc = P("postgresWithRelations", "update", 2)
    /\ pg' = PgUpdatePosts(pg, {q \in pg.posts : q.id \in found}, "trending")
    /\ found' = {}
    /\ afterUpdate' = StatusCount(pg'.posts)
    /\ Go(pc)
    /\ UNCHANGED <<pgSeq, mg, oid, conn, testData, usernameSet>>
    /\ UNCHANGED <<pending, fileWrites, outcome>>

\* performance-test.ts:472-479  deleteMany({where: {likes: {none: {}}}})
PgRelDelete ==
    /\ pc = P("postgresWithRelations", "delete", 1)
    /\ LET r == PgDeleteMany(pg, "posts",
                   {q \in pg.posts : ~\E l \in pg.likes : l.post_id = q.id})
       IN IF r.err # "none"
          THEN Throw(r.err) /\ pg' = pg
          ELSE Go(pc) /\ pg' = r.db
    /\ UNCHANGED <<pgSeq, mg, oid, conn>>
    /\ UNCHANGED genVars
    /\ UNCHANGED runVars

\* performance-test.ts:684-696 and 705-717  the find of update and of delete
MgRelFind ==
    /\ pc.ph = "mongoWithRelations" /\ pc.op \in {"update", "delete"}
    /\ pc.sub = 1
    /\ found' = {q._id : q \in {x \in mg.posts :
                     IF pc.op = "update" THEN MgHasLikes(mg, x)
                     ELSE ~MgHasLikes(mg, x)}}
    /\ Go(pc)
    /\ UNCHANGED <<conn, testData, usernameSet>>
    /\ UNCHANGED dbVars
    /\ UNCHANGED runVars

\* performance-test.ts:698-701  updateMany _id in (...) -> "trending"
MgRelUpdateSet ==
    /\ pc = P("mongoWithRelations", "update", 2)
    /\ mg' = MgUpdatePosts(mg, {q \in mg.posts : q._id \in found}, "trending")
    /\ found' = {}
    /\ Go(pc)
    /\ UNCHANGED <<pg, pgSeq, oid, conn, testData, usernameSet>>
    /\ UNCHANGED runVars

\* performance-test.ts:719-721  deleteMany _id in (...)
MgRelDelete ==
    /\ pc = P("mongoWithRelations", "delete", 2)
    /\ mg' = [mg EXCEPT !.posts = {q \in @ : q._id \notin found}]
    /\ found' = {}
    /\ Go(pc)
    /\ Release(pc)
    /\ afterUpdate' = <<>>
    /\ UNCHANGED <<pg, pgSeq, oid, conn, usernameSet>>
    /\ UNCHANGED <<pending, fileWrites, outcome>>

\* ------------------------------------------------------------- runAllTests
\* test-runner.ts:65  await setupDocker().catch(console.error)
SetupDocker ==
    /\ pc = P("main", "setupDocker", 1)
    /\ Go(pc)
    /\ UNCHANGED conn
    /\ UNCHANGED dbVars
    /\ UNCHANGED genVars
    /\ UNCHANGED runVars

\* performance-test.ts:32-35 and 42-61  mongo.connect(), then the indexes
Connect ==
    /\ pc.ph = "runAllTests" /\ pc.op \in {"connect", "setupMongoIndexes"}
    /\ conn' = [conn EXCEPT !.mongo = "open"]
    /\ Go(pc)
    /\ UNCHANGED dbVars
    /\ UNCHANGED genVars
    /\ UNCHANGED runVars

\* performance-test.ts:807-1079  ten read-only queries, each in its measure
AggregationQuery ==
    /\ pc.ph = "runAggregationTests"
    /\ Go(pc)
    /\ UNCHANGED conn
    /\ UNCHANGED dbVars
    /\ UNCHANGED genVars
    /\ UNCHANGED runVars

\* test-runner.ts:54  writeFileSync('test-results.json', ...)
WriteFile ==
    /\ pc = P("runAllTests", "writeFileSync", 1)
    /\ fileWrites' = fileWrites + 1
    /\ Go(pc)
    /\ UNCHANGED <<conn, pending, outcome, afterUpdate>>
    /\ UNCHANGED dbVars
    /\ UNCHANGED genVars

\* performance-test.ts:37-40  prisma.$disconnect(), then mongo.close()
Disconnect ==
    /\ pc.ph = "runAllTests" /\ pc.op = "disconnect"
    /\ IF pc.sub = 1
       THEN conn' = [conn EXCEPT !.prisma = "closed"] /\ pending' = pending
       ELSE conn' = [conn EXCEPT !.mongo = "closed"] /\ pending' = {}
    /\ Go(pc)
    /\ UNCHANGED <<fileWrites, outcome, afterUpdate>>
    /\ UNCHANGED dbVars
    /\ UNCHANGED genVars

\* test-runner.ts:67  await cleanUpDocker().catch(console.error), docker.ts:
\* 39-46: both containers are stopped and removed, and their data with them;
\* runAllTests is over and its locals are gone
CleanUpDocker ==
    /\ pc = P("main", "cleanUpDocker", 1)
    /\ Go(pc)
    /\ pg' = EmptyDb
    /\ mg' = EmptyDb
    /\ pending' = {}
    /\ testData' = NoData
    /\ usernameSet' = <<>>
    /\ found' = {}
    /\ afterUpdate' = <<>>
    /\ UNCHANGED <<pgSeq, oid, conn, fileWrites, outcome>>

\* the module has run to its end with every rejection handled by a
\* .catch(console.error): the exit status is 0; a client that was never
\* disconnected can keep the process from ending
Exit ==
    /\ pc = P("main", "exit", 1)
    /\ \E o \in (IF "open" \in {conn.prisma, conn.mongo}
                 THEN {"exit0", "hang"} ELSE {"exit0"}) : outcome' = o
    /\ pending' = {}
    /\ Go(pc)
    /\ UNCHANGED <<conn, fileWrites, afterUpdate>>
    /\ UNCHANGED dbVars
    /\ UNCHANGED genVars

\* ------------------------------------------------------------------ faults
\* the calls that go to a backend and can fail on their own
Faultable(p) ==
    \/ p.ph \in {"cleanup", "runAggregationTests"}
    \/ p.ph = "runAllTests" /\ p.op # "writeFileSync"
    \/ p.ph \in Generators /\ p.op \notin {"names", "likes"}
    \/ p.ph \in Variants /\ ~(p.ph = "mongoWithIndexes" /\ p.op = "writes")

\* the awaited call at pc fails with a connection error and changes nothing
\* in the backend (the driver has given every new document its _id before
\* it sends the insert)
Fault ==
    /\ Faultable(pc)
    /\ IF pc = P("mongoWithRelations", "writes", 3)
       THEN /\ GoOn(pc, {Swallowed(pc.ph, "likes", "conn")})
            /\ oid' = oid + Len(testData.likes)
       ELSE Throw("conn") /\ oid' = oid
    /\ UNCHANGED <<pg, pgSeq, mg, conn>>
    /\ UNCHANGED genVars
    /\ UNCHANGED runVars

Next ==
    \/ SetupDocker \/ Connect \/ Cleanup
    \/ GenUsernames \/ GenCreateUsers \/ GenFindUsers
    \/ GenRelCreatePosts \/ GenRelFindPosts
    \/ GenMongoInsertUsers \/ GenMongoInsertPosts \/ GenMongoLikes
    \/ PgBasicWrites \/ MgBasicWritesUsers \/ MgBasicWritesFind
    \/ MgBasicWritesPosts \/ PgRelWritesPosts \/ PgRelWritesLikes
    \/ MgRelWritesRows \/ MgRelWritesLikes \/ MgIdxWritesStart
    \/ (\E o \in pending : Settle(o))
    \/ Read \/ UpdateActive \/ DeleteArchived
    \/ PgRelUpdateFind \/ PgRelUpdateSet \/ PgRelDelete
    \/ MgRelFind \/ MgRelUpdateSet \/ MgRelDelete
    \/ AggregationQuery \/ WriteFile \/ Disconnect \/ CleanUpDocker \/ Exit
    \/ Fault

Spec == Init /\ [][Next]_vars


\* ================================================================== claims
AllEmpty(db) == \A t \in Range(Tables) : db[t] = {}

\* a phase begins: its generator is entered and has drawn nothing yet
PhaseBegins ==
    pc.ph \in Generators /\ pc.op = "names" /\ usernameSet = <<>>

\* the generator of the current phase has just returned its dataset
Returned(generator) ==
    \/ generator = "generateBasicTestData"
       /\ pc = P("postgresBasic", "writes", 1)
    \/ generator = "generateRelationalTestData"
       /\ pc = P("postgresWithRelations", "writes", 1)
    \/ generator = "generateMongoTestData"
       /\ pc = P("mongoWithIndexes", "writes", 1)

HasEvent(e, s, v, o) ==
    \E i \in DOMAIN trace : trace[i] = [e |-> e, s |-> s, v |-> v, o |-> o]

\* C1: at the moment a phase (basic, relational, indexed) of any scale
\* begins, users, posts, likes and follows are empty on both backends.
C1_PhaseStartsEmpty == PhaseBegins => AllEmpty(pg) /\ AllEmpty(mg)

\* C2: whenever control is anywhere but inside the writes that started
\* them, no backend request is in flight.
C2_NoRequestInFlight == \A o \in pending : pc = IdxWait /\ o.s = si

\* C3: an error swallowed inside a writes operation is a duplicate key on
\* the bulk insert of likes, and nothing else.
C3_OnlyDuplicateLikesSwallowed ==
    \A e \in caught : e.call = "likes" /\ e.kind = "dup"

\* every variant of every scale and every aggregation query was measured
AllMeasured ==
    /\ \A i \in DOMAIN scales : \A v \in Variants : \A k \in 1..7 :
          HasEvent("end", scales[i], v, Operations[k])
    /\ \A b \in {"postgres", "mongo"} : \A k \in 1..5 :
          HasEvent("end", 0, b, AggregationQueries[k])

\* C4: test-results.json is written at most once, only when every scale and
\* the aggregation pass are over and no error has propagated; once an error
\* has propagated the file is not written any more.
C4_NoPartialArtifact ==
    [][/\ fileWrites' # fileWrites =>
             fileWrites = 0 /\ fileWrites' = 1 /\ error = "none" /\ AllMeasured
       /\ error # "none" => fileWrites' = fileWrites]_vars

\* an error propagated after the first scale was measured, the process is
\* over and there is no file
C4_Witness ==
    /\ pc = ExitedPc /\ error # "none" /\ fileWrites = 0
    /\ HasEvent("end", scales[1], "mongoWithIndexes", "delete")

\* C5: a process that ended after an error propagated out of runAllTests
\* ended with a non-zero status.
C5_FatalExitsNonZero ==
    (pc = ExitedPc /\ error # "none") => outcome \notin {"exit0", "hang"}

\* the order the claims give to the seven measurements
CanonicalOrder == <<"writes", "simpleRead", "filteredRead", "projectedRead",
                    "sortedRead", "update", "delete">>

\* the begin and end events of variant v at scale s, in the order they happened
MeasuresOf(s, v) == SelectSeq(trace, LAMBDA e : e.s = s /\ e.v = v)

SevenInOrder(s, v) ==
    Flatten([k \in 1..7 |->
        <<[e |-> "begin", s |-> s, v |-> v, o |-> CanonicalOrder[k]],
          [e |-> "end", s |-> s, v |-> v, o |-> CanonicalOrder[k]]>>])

\* the event of operation number k of the variant of event x
Mark(e, x, k) == [e |-> e, s |-> x.s, v |-> x.v, o |-> CanonicalOrder[k]]

\* event n of the trace tr stands where the canonical order puts it: the
\* begin of writes is the first event of its variant, any other begin comes
\* right after the end of the operation before it, an end comes right after
\* its begin, and what follows is the end, or the begin of the next
\* operation; inside tells whether the run may still be in that variant
InPlace(tr, n, inside) ==
    LET x == tr[n]
        k == IndexIn(CanonicalOrder, x.o)
    IN x.v \in Variants =>
         /\ x.o \in Range(CanonicalOrder)
         /\ IF x.e = "begin"
            THEN /\ IF k = 1
                    THEN \A m \in 1..(n - 1) :
                            ~(tr[m].s = x.s /\ tr[m].v = x.v)
                    ELSE n > 1 /\ tr[n - 1] = Mark("end", x, k - 1)
                 /\ IF n < Len(tr) THEN tr[n + 1] = Mark("end", x, k)
                    ELSE inside
            ELSE /\ n > 1 /\ tr[n - 1] = Mark("begin", x, k)
                 /\ k < 7 =>
                      IF n < Len(tr) THEN tr[n + 1] = Mark("begin", x, k + 1)
                      ELSE inside

\* C6: the measurements of a variant are taken in the canonical order, each
\* begun after the one before it was recorded and each at most once, and a
\* variant is left without an error only when all seven are recorded.  Every
\* step is held to it for the events it records and the last one recorded
\* before it.
C6_SevenInFixedOrder ==
    [][\A n \in DOMAIN trace' :
          n >= Len(trace) =>
             InPlace(trace', n,
                     \/ pc'.ph = trace'[n].v /\ scales[si'] = trace'[n].s
                     \/ error' # "none")]_vars

C6_Witness ==
    /\ MeasuresOf(scales[2], "mongoWithRelations")
          = SevenInOrder(scales[2], "mongoWithRelations")
    /\ pc.ph = "cleanup"

\* the phases of one scale, adapter by adapter, as the claims give them
PhaseOrder == <<"postgresBasic", "mongoBasic", "postgresWithRelations",
                "mongoWithRelations", "mongoWithIndexes">>

WholeRun ==
    Flatten([i \in DOMAIN scales |->
        Flatten([j \in 1..5 |-> SevenInOrder(scales[i], PhaseOrder[j])])])
    \o Flatten([j \in 1..2 |-> Flatten([k \in 1..5 |->
          LET b == <<"postgres", "mongo">>[j]
              q == <<"postsPerUser", "avgLikesPerPost", "mostActiveUsers",
                     "mostLikedPosts", "userEngagement">>[k]
          IN <<[e |-> "begin", s |-> 0, v |-> b, o |-> q],
               [e |-> "end", s |-> 0, v |-> b, o |-> q]>>])])

\* C7: the artifact is written only after the whole fixed sequence (per
\* scale basic, relational, indexed; then the aggregation pass, each query
\* once per backend) has run, and a run that completes has written it.
C7_FixedPhaseSequence ==
    /\ fileWrites > 0 => trace = WholeRun
    /\ (pc = ExitedPc /\ error = "none") => fileWrites = 1 /\ trace = WholeRun

C7_Witness == pc = ExitedPc /\ error = "none" /\ outcome = "exit0"

\* C8: when cleanup returns, users, posts, likes and follows are empty on
\* both backends.
C8_CleanupLeavesNothing ==
    [][(pc.ph = "cleanup" /\ pc'.ph \in Generators)
          => AllEmpty(pg') /\ AllEmpty(mg')]_vars

\* C9: a returned dataset has floor(scale / UserDivisor) users, all with
\* different usernames, and scale posts.
C9_DatasetSize ==
    \A g \in Generators :
       Returned(g) =>
          /\ Len(testData.users) = scales[si] \div UserDivisor
          /\ \A i, j \in DOMAIN testData.users :
                i # j => testData.users[i].username # testData.users[j].username
          /\ Len(testData.posts) = scales[si]

C9_Witness ==
    /\ Returned("generateRelationalTestData")
    /\ Len(testData.users) = 2
    /\ testData.users[1].username # testData.users[2].username

\* C10: a returned dataset with likes (relational, indexed) holds no two
\* likes with the same (post, user) pair and at most floor(scale * LikeFactor)
\* likes.
C10_LikesUnique ==
    (Returned("generateRelationalTestData") \/ Returned("generateMongoTestData"))
       => /\ \A i, j \in DOMAIN testData.likes :
                i # j => \/ testData.likes[i].post_id # testData.likes[j].post_id
                         \/ testData.likes[i].user_id # testData.likes[j].user_id
          /\ Len(testData.likes) <= scales[si] * LikeFactor

\* C11: a step of a generator leaves what the relational backend and the
\* document backend store unchanged (a step that settles a bulk operation
\* started earlier is not a step of the generator).
C11_GenerationStoresNothing ==
    [][(pc.ph \in Generators /\ pending' = pending)
          => (pg' = pg /\ mg' = mg)]_vars

\* the backend a variant writes to and reads from
BackendOf(v) == IF v \in {"postgresBasic", "postgresWithRelations"}
                THEN "postgres" ELSE "mongo"

\* writes of variant v is recorded and the variant is still running
WritesDone(v) == pc.ph = v /\ pc.op # "writes"

\* the owner of post q is stored, under the join the reads of the backend use
Resolves(backend, q) ==
    IF backend = "postgres"
    THEN \E u \in pg.users : q.user_id = u.id
    ELSE \E u \in mg.users : q.user_id = u._id

\* C12: once writes of a variant is recorded, the owner reference of every
\* post stored on the variant's backend resolves to a user stored there.
C12_OwnerResolves ==
    \A v \in Variants :
       WritesDone(v) =>
          \A q \in (IF BackendOf(v) = "postgres" THEN pg.posts ELSE mg.posts) :
             Resolves(BackendOf(v), q)

\* the likes stored on a backend
StoredLikes(backend) == IF backend = "postgres" THEN pg.likes ELSE mg.likes

SamePair(a, b) == a.post_id = b.post_id /\ a.user_id = b.user_id

\* no backend stores two likes with the same (post, user) pair
PairsUnique ==
    \A b \in {"postgres", "mongo"} :
       \A l, m \in StoredLikes(b) : SamePair(l, m) => l = m

\* C13: when writes of a variant that inserts likes is recorded, every
\* (post, user) pair of the batch is stored exactly once on the variant's
\* backend; and no backend ever stores the same pair twice.
C13_LikesInsertedOnce ==
    /\ PairsUnique
    /\ \A v \in {"postgresWithRelations", "mongoWithRelations",
                 "mongoWithIndexes"} :
          pc = P(v, "simpleRead", 1) =>
             \A i \in DOMAIN testData.likes :
                Cardinality({l \in StoredLikes(BackendOf(v)) :
                                SamePair(l, testData.likes[i])}) = 1

\* a stored like refers to post q, by whichever identifier the post has
Liked(backend, q) ==
    IF backend = "postgres"
    THEN \E l \in pg.likes : l.post_id = q.id
    ELSE \E l \in mg.likes :
            \/ l.post_id = q._id
            \/ q.id # NoId /\ l.post_id = q.id

\* C14: the filteredRead of every variant selects exactly the stored posts
\* that are active and have at least one like.
C14_FilteredIsActiveAndLiked ==
    \A v \in Variants :
       (pc.ph = v /\ pc.op = "filteredRead") =>
          FilteredRead(v) = {q \in StoredPosts(BackendOf(v)) :
                                IsActive(q) /\ Liked(BackendOf(v), q)}

\* C15: the projectedRead of every variant returns the posts its
\* filteredRead returns on the same stored state.
C15_ProjectedSameAsFiltered ==
    \A v \in Variants :
       (pc.ph = v /\ pc.op = "projectedRead") =>
          ProjectedRead(v) = FilteredRead(v)

\* ------------------------------------------------- sortedRead, on its own
\* sortedRead depends on created_at and title, which no other operation
\* reads: it is run here on stored states of the shape the writes of each
\* variant leave (one user, up to MaxRows posts of that user, and in the
\* variants that store likes possibly a like on the first post).

\* the identifiers the writes of variant v give to row number n, and the
\* reference other rows hold to it
ReadKey(v, n) ==
    CASE v \in {"postgresBasic", "postgresWithRelations"} ->
            [_id |-> NoId, id |-> IntId(n), ref |-> IntId(n)]
      [] v = "mongoWithRelations" ->
            [_id |-> ObjectId(n), id |-> IntId(n), ref |-> IntId(n)]
      [] OTHER -> [_id |-> ObjectId(n), id |-> NoId, ref |-> ObjectId(n)]

ReadPost(v, n, x) ==
    [_id |-> ReadKey(v, n + 1)._id, id |-> ReadKey(v, n + 1).id,
     status |-> x[1], created_at |-> x[2], title |-> x[3],
     user_id |-> ReadKey(v, 1).ref]

ReadStored(v, xs, liked) ==
    [users |-> {[_id |-> ReadKey(v, 1)._id, id |-> ReadKey(v, 1).id,
                 username |-> 1]},
     posts |-> {ReadPost(v, n, xs[n]) : n \in DOMAIN xs},
     likes |-> IF liked /\ xs # <<>> /\ v \notin {"postgresBasic", "mongoBasic"}
               THEN {[_id |-> ReadKey(v, MaxRows + 2)._id,
                      post_id |-> ReadKey(v, 2).ref,
                      user_id |-> ReadKey(v, 1).ref]}
               ELSE {},
     follows |-> {}]

ReadInit ==
    \E v \in Variants, k \in 0..MaxRows, liked \in BOOLEAN :
       \E xs \in [1..k -> Statuses \X (1..MaxStamp) \X (1..MaxTitle)] :
          /\ pc = P(v, "sortedRead", 1)
          /\ pg = IF BackendOf(v) = "postgres"
                  THEN ReadStored(v, xs, liked) ELSE EmptyDb
          /\ mg = IF BackendOf(v) = "mongo"
                  THEN ReadStored(v, xs, liked) ELSE EmptyDb
          /\ si = 1
          /\ pgSeq = [users |-> 1, posts |-> 1]
          /\ oid = 1
          /\ conn = [prisma |-> "open", mongo |-> "open"]
          /\ testData = NoData
          /\ usernameSet = <<>>
          /\ found = <<>>
          /\ pending = {}
          /\ trace = <<>>
          /\ caught = {}
          /\ error = "none"
          /\ fileWrites = 0
          /\ outcome = "running"
          /\ afterUpdate = <<>>

\* the posts the sortedRead of variant v returns
\* (performance-test.ts:343-349, 442-458, 523-528, 647-681, 784-790)
SortedReadRows(v) ==
    CASE v = "postgresBasic" -> pg.posts
      [] v = "postgresWithRelations" -> {q \in pg.posts : IsActive(q)}
      [] v = "mongoBasic" -> mg.posts
      [] v = "mongoWithRelations" ->
            {q \in mg.posts : IsActive(q) /\ MgHasUser(q)}
      [] v = "mongoWithIndexes" -> mg.posts

\* orderBy / $sort of variant v: created_at descending, and in the two
\* relational-phase variants title ascending among equal created_at
SortsByTitle(v) == v \in {"postgresWithRelations", "mongoWithRelations"}

InSortOrder(v, a, b) ==
    \/ a.created_at > b.created_at
    \/ a.created_at = b.created_at /\ (SortsByTitle(v) => a.title <= b.title)

\* every sequence sortedRead may return: rows the sort keys do not order
\* come in an order the backend chooses
SortedRead(v) ==
    {r \in [1..Cardinality(SortedReadRows(v)) -> SortedReadRows(v)] :
        /\ \A i, j \in DOMAIN r : i # j => r[i] # r[j]
        /\ \A i, j \in DOMAIN r : i < j => InSortOrder(v, r[i], r[j])}

ReadSorted ==
    /\ pc.op = "sortedRead" /\ pc.sub = 1
    /\ \E r \in SortedRead(pc.ph) : found' = r
    /\ pc' = P(pc.ph, "sortedRead", 2)
    /\ UNCHANGED <<si, trace, error, caught, conn, testData, usernameSet>>
    /\ UNCHANGED dbVars
    /\ UNCHANGED runVars

ReadNext == ReadSorted

ReadSpec == ReadInit /\ [][ReadNext]_vars

\* C16: sortedRead returns the posts projectedRead returns on the same
\* stored state, by non-increasing created_at and, among equal created_at,
\* by non-decreasing title.
C16_SortedSameAsProjectedInOrder ==
    (pc.op = "sortedRead" /\ pc.sub = 2) =>
       /\ Range(found) = ProjectedRead(pc.ph)
       /\ \A i, j \in DOMAIN found :
             i < j =>
                \/ found[i].created_at > found[j].created_at
                \/ /\ found[i].created_at = found[j].created_at
                   /\ found[i].title <= found[j].title

(***************************************************************************)
(* The update and the delete of a phase, across the two backends.         *)
(***************************************************************************)

\* the document adapter of a phase has just recorded its update
MongoUpdated ==
    \/ pc = P("mongoBasic", "delete", 1)
    \/ pc = P("mongoWithRelations", "delete", 1)

\* the document adapter of a phase has just recorded its delete
MongoDeleted ==
    \/ pc = P("cleanup", "afterBasic", 1)
    \/ pc = P("cleanup", "afterRelational", 1)

\* C17: within a phase the update and the delete have the same effect on
\* both backends: when the document adapter has recorded its update, its
\* posts carry the statuses the relational backend's posts carried when
\* the relational adapter had recorded its update; and when the document
\* adapter has recorded its delete, the posts left on the two backends
\* carry the same statuses, as many of each.
C17_UpdateDeleteMirrored ==
    /\ MongoUpdated => StatusCount(mg.posts) = afterUpdate
    /\ MongoDeleted => StatusCount(mg.posts) = StatusCount(pg.posts)

(***************************************************************************)
(* The update on status "active" and the delete that follows it.          *)
(***************************************************************************)

ActiveUpdating == {"postgresBasic", "mongoBasic", "mongoWithIndexes"}

\* control leaves the call at p and no error was thrown
Leaves(p) == pc = p /\ pc' # p /\ error' = "none"

Clients == {"prisma", "mongo"}

\* runAllTests is over: it returned or it threw
RunOver == pc.ph = "main" /\ pc.op # "setupDocker"

\* C19: the connections are opened once, before the first scale, by
\* connect; no cleanup, generation or variant opens or closes one; and when
\* runAllTests is over, with or without an error, every connection that
\* was opened has been closed, once.
C19_ConnectionsOpenedAndClosedOnce ==
    [][/\ \A c \in Clients :
            /\ (conn'[c] = "open" /\ conn[c] # "open") =>
                  conn[c] = "idle" /\ pc = P("runAllTests", "connect", 1)
            /\ (conn'[c] = "closed" /\ conn[c] # "closed") =>
                  conn[c] = "open" /\ pc.ph = "runAllTests"
                                   /\ pc.op = "disconnect"
       /\ pc.ph \in {"cleanup"} \cup Generators \cup Variants => conn' = conn
       /\ RunOver' => \A c \in Clients : conn'[c] # "open"]_vars

(***************************************************************************)
(* What a backend holds when the first read of a variant begins.          *)
(***************************************************************************)

StoredUsers(backend) == IF backend = "postgres" THEN pg.users ELSE mg.users

\* C20: when simpleRead of a variant begins, at any scale, the backend the
\* variant reads from holds floor(scale / UserDivisor) users and scale posts.
C20_CountsAtFirstRead ==
    \A v \in Variants :
       pc = P(v, "simpleRead", 1) =>
          /\ Cardinality(StoredUsers(BackendOf(v))) = scales[si] \div UserDivisor
          /\ Cardinality(StoredPosts(BackendOf(v))) = scales[si]

(***************************************************************************)
(* What the aggregation pass runs on.                                      *)
(***************************************************************************)

\* runAllTests is about to call runAggregationTests
AggregationStarts == pc = P("runAggregationTests", "postgres", 1)

\* the users of the run of the last scale
LastUsers == scales[Len(scales)] \div UserDivisor

\* C21: when runAggregationTests starts, neither backend is empty: the
\* relational backend and the document backend each hold the
\* floor(scale / UserDivisor) users of the run of the last scale (with
\* whatever posts and likes that run left).
C21_AggregationOnLastScale ==
    AggregationStarts =>
       /\ ~AllEmpty(pg) /\ Cardinality(pg.users) = LastUsers
       /\ ~AllEmpty(mg) /\ Cardinality(mg.users) = LastUsers

(***************************************************************************)
(* The unique-like loop of generateMongoTestData, on its own: it starts    *)
(* with the users and the posts of a scale generated and inserted.         *)
(***************************************************************************)

\* types.ts:33  export type Scale = 100 | 1000 | 30000
ScaleValues == {100, 1000, 30000}

\* performance-test.ts:188, 201, 221: Math.floor(scale * 5) likes are to be
\* drawn from the pairs of scale posts and Math.floor(scale / 10) users
LikePairsSuffice(scale) == scale * 5 <= scale * (scale \div 10)

LikesLoop == P("generateMongoTestData", "likes", 1)

\* performance-test.ts:187-214: the state in which the loop is entered
LikesInit ==
    \E s \in DOMAIN scales :
       LET n == scales[s] \div UserDivisor
           users == WithObjectIds([i \in 1..n |->
                       [_id |-> NoId, id |-> NoId, username |-> i]], 1)
       IN \E f \in [1..scales[s] -> Statuses \X {ObjectId(i) : i \in 1..n}] :
             LET posts == WithObjectIds(NewPosts(f), n + 1)
             IN /\ pc = LikesLoop
                /\ si = s
                /\ pg = EmptyDb
                /\ pgSeq = [users |-> 1, posts |-> 1]
                /\ mg = [EmptyDb EXCEPT !.users = Range(users),
                                        !.posts = Range(posts)]
                /\ oid = n + scales[s] + 1
                /\ conn = [prisma |-> "open", mongo |-> "open"]
                /\ testData = [users |-> users, posts |-> posts,
                               likes |-> <<>>]
                /\ usernameSet = <<>>
                /\ found = {}
                /\ pending = {}
                /\ trace = <<>>
                /\ caught = {}
                /\ error = "none"
                /\ fileWrites = 0
                /\ outcome = "running"
                /\ afterUpdate = <<>>

LikesNext == GenMongoLikes

\* faker.helpers.arrayElement draws posts and users at random: the loop does
\* not draw pairs it already has for ever while there is one it has not
LikesSpec == LikesInit /\ [][LikesNext]_vars /\ WF_vars(GenMongoLikes)

\* C22: the unique-like loop of generateMongoTestData terminates: for every
\* scale of the Scale type the target floor(scale * 5) is at most the
\* number of (post, user) pairs, and under a fair random choice of pairs
\* a loop that has started collects its target of likes, no pair twice,
\* and returns.
C22_LikesLoopTerminates ==
    /\ \A scale \in ScaleValues : LikePairsSuffice(scale)
    /\ (pc = LikesLoop) ~>
          /\ pc = NextPc(LikesLoop)
          /\ Len(testData.likes) = LikeTarget
          /\ \A i, j \in DOMAIN testData.likes :
                SamePair(testData.likes[i], testData.likes[j]) => i = j

\* the loop has returned two likes of one post by two users
C22_Witness ==
    /\ pc = NextPc(LikesLoop)
    /\ Len(testData.likes) = 2
    /\ testData.likes[1].post_id = testData.likes[2].post_id
    /\ testData.likes[1].user_id # testData.likes[2].user_id

(***************************************************************************)
(* References between the rows of the relational backend.                  *)
(***************************************************************************)

\* every stored like has its post and its user, every stored post its user
PgReferencesResolve ==
    /\ \A l \in pg.likes :
          /\ \E q \in pg.posts : q.id = l.post_id
          /\ \E u \in pg.users : u.id = l.user_id
    /\ \A q \in pg.posts : \E u \in pg.users : u.id = q.user_id

\* C23: on the relational backend, in every state of the run, every stored
\* like references a stored post and a stored user and every stored post a
\* stored user; and no statement of generation, writes, update, delete or
\* cleanup is refused because it would remove a row that is still
\* referenced or insert a row whose parent is absent.
C23_ReferentialIntegrity ==
    /\ PgReferencesResolve
    /\ error # "fk"
    /\ \A e \in caught : e.kind # "fk"

\* cleanup has removed the likes, and is about to remove the posts they
\* referenced and then the users
C23_Witness ==
    /\ pc = P("cleanup", "afterRelational", 3)
    /\ pg.likes = {}
    /\ pg.posts # {}
    /\ \E q \in pg.posts : q.status = "trending"
====
